---- MODULE Spec2Model ----
(***************************************************************************)
(* Smart research agent: the ResearchAgent control loop (src/src/agent.py) *)
(* and the ToolRegistry it dispatches to (src/src/tools.py).               *)
(*                                                                         *)
(* A Python string is a sequence of fragments (TLA+ strings) whose         *)
(* concatenation is the string: "" is a sequence of empty fragments.       *)
(* A serialized JSON text is [ok |-> TRUE, value |-> v] for the text of    *)
(* the value v, and [ok |-> FALSE, ...] for a text json.loads rejects.     *)
(* An Optional[str] is <<>> for None and <<s>> for the string s.           *)
(***************************************************************************)
EXTENDS Integers, Sequences, FiniteSets, TLC

\* ---------------------------------------------------------------- bounds
\* Largest max_iterations a configuration is drawn with.
MaxIterBound == 2
\* Largest number of tool calls the model requests in one research session.
MaxSessionCalls == 3

\* Longest note ledger built by direct calls of the registry.
MaxNotes == 3

\* ---------------------------------------------------------------- state
VARIABLES
    max_iterations,  \* config.max_iterations
    messages,        \* self.messages, the transcript
    notes,           \* self.tools._notes, the note ledger
    report,          \* self._report
    iteration,       \* the loop counter of research()
    pc,              \* where research() stands
    tool_calls,      \* the tool calls of the response being processed
    idx,             \* position of the for loop of _process_tool_calls
    results,         \* the local list results of _process_tool_calls
    returned,        \* the value research() returned, None before it returns
    llm_calls,       \* model requests issued in this session
    calls_made,      \* tool calls requested by the model in this session
    last_result,     \* the last direct call on a ToolRegistry and its outcome
    taken,           \* the direct take_notes calls since the last clear_notes
    request_tools    \* the tools argument of the session's last model request

vars == <<max_iterations, messages, notes, report, iteration, pc,
          tool_calls, idx, results, returned, llm_calls, calls_made, last_result, taken,
          request_tools>>

\* ---------------------------------------------------------------- strings
None == <<>>
Some(s) == <<s>>

\* s == "" in Python
IsEmptyStr(s) == \A i \in DOMAIN s : s[i] = ""

\* bool(x) for an Optional[str]: None and "" are falsy
Truthy(opt) == opt # None /\ ~IsEmptyStr(opt[1])

\* needle in haystack, for a needle that is one whole string
Contains(hay, needle) ==
    \E i \in 1..(Len(hay) - Len(needle) + 1) :
        SubSeq(hay, i, i + Len(needle) - 1) = needle

\* ---------------------------------------------------------------- JSON values
\* json values the model's argument text can carry
JStr(s) == [t |-> "str", s |-> <<s>>]
JInt(n) == [t |-> "int", s |-> <<ToString(n)>>]
JDict(items) == [t |-> "dict", items |-> items]
JList == [t |-> "list", items |-> <<>>]
JNull == [t |-> "null", items |-> <<>>]
KV(k, v) == [k |-> k, v |-> v]

JsonText(v) == [ok |-> TRUE, value |-> v]
Garbage == [ok |-> FALSE, value |-> JNull]

\* json.loads: the value, or JSONDecodeError
json_loads(text) ==
    IF text.ok THEN [raised |-> FALSE, value |-> text.value]
               ELSE [raised |-> TRUE, value |-> JNull]

\* json.dumps of a structured value
json_dumps(v) == JsonText(v)

EmptyDict == JDict(<<>>)

IsDict(a) == a.t = "dict"
Keys(a) == {a.items[i].k : i \in DOMAIN a.items}
HasKey(a, key) == key \in Keys(a)
Lookup(a, key) == (CHOOSE i \in DOMAIN a.items : a.items[i].k = key)

\* dict.get(key, default) on a dict of JSON values
DictGet(a, key, default) ==
    IF HasKey(a, key) THEN a.items[Lookup(a, key)].v ELSE default

\* str(value) as an f-string renders it
Render(v) == v.s

\* value[:50] is defined for strings (and lists), not for numbers or null
Sliceable(v) == v.t \in {"str", "list"}

\* ---------------------------------------------------------------- ToolRegistry
\* the names registered in ToolRegistry._tools
ToolNames == {"web_search", "fetch_webpage", "take_notes", "compile_report"}

\* compile_report is offered only once the ledger holds a note
get_tool_definitionsByLedger ==
    << [name |-> "web_search", required |-> {"query"}],
       [name |-> "fetch_webpage", required |-> {"url"}],
       [name |-> "take_notes", required |-> {"note"}] >>
    \o (IF notes = <<>> THEN <<>>
        ELSE << [name |-> "compile_report",
                 required |-> {"title", "summary", "detailed_findings",
                               "conclusion"}] >>)

\* get_tool_definitions(): the four schemas, by name and required parameters
get_tool_definitions ==
    << [name |-> "web_search", required |-> {"query"}],
       [name |-> "fetch_webpage", required |-> {"url"}],
       [name |-> "take_notes", required |-> {"note"}],
       [name |-> "compile_report",
        required |-> {"title", "summary", "detailed_findings", "conclusion"}] >>

\* the parameters of each tool's Python signature, and those without a default
Params(name) ==
    CASE name = "web_search" -> {"query"}
      [] name = "fetch_webpage" -> {"url"}
      [] name = "take_notes" -> {"note", "source"}
      [] name = "compile_report" ->
            {"title", "summary", "detailed_findings", "conclusion"}

Required(name) ==
    CASE name = "web_search" -> {"query"}
      [] name = "fetch_webpage" -> {"url"}
      [] name = "take_notes" -> {"note"}
      [] name = "compile_report" ->
            {"title", "summary", "detailed_findings", "conclusion"}

Eq60 == "============================================================"
Dash40 == "----------------------------------------"

\* web_search: the provider either answers or raises inside the body's own
\* try/except, which turns the exception into a failure result
web_search(query, provider_ok) ==
    IF provider_ok
    THEN [success |-> TRUE, query |-> Render(query),
          results |-> <<[title |-> <<"hit">>, url |-> <<"http://hit">>,
                         snippet |-> <<"text">>]>>,
          count |-> 1]
    ELSE [success |-> FALSE, error |-> <<"search failed">>, results |-> <<>>]

\* stop_after_attempt(3) on web_search, stop_after_attempt(2) on fetch_webpage
SearchAttempts == 3
FetchAttempts == 2

RECURSIVE Retrying(_, _, _)
\* the loop of the retry decorator, from attempt k on: a call that returns ends
\* it with the value returned, a call that raises is followed by the next
\* attempt until attempt number stop has raised, and then the decorator raises.
\* outcome[k] is what the decorated body does at attempt k
Retrying(k, stop, outcome) ==
    IF ~outcome[k].raised
    THEN [attempts |-> k, raised |-> FALSE, value |-> outcome[k].value]
    ELSE IF k >= stop
    THEN [attempts |-> k, raised |-> TRUE, value |-> <<"RetryError">>]
    ELSE Retrying(k + 1, stop, outcome)

\* web_search under its decorator; provider[k] tells whether the search
\* provider answers at attempt k. The body returns at every attempt
web_search_retry(query, provider) ==
    Retrying(1, SearchAttempts,
             [k \in 1..SearchAttempts |->
                 [raised |-> FALSE, value |-> web_search(query, provider[k])]])

\* lines[:100], content[:4000] and the marker appended to a cut text
LineCap == 100
CharCap == 4000
Marker == "... [truncated]"

\* what the HTTP request of one attempt meets: an exception (of requests.get
\* or raise_for_status), or a page whose extracted text has `lines` non-empty
\* stripped lines of `width` characters each
RequestFails == [ok |-> FALSE]
Page(lines, width) == [ok |-> TRUE, lines |-> lines, width |-> width]

\* len("\n".join(lines[:100])) for such a text
JoinedLength(lines, width) ==
    LET kept == IF lines > LineCap THEN LineCap ELSE lines
    IN  IF kept = 0 THEN 0 ELSE kept * width + (kept - 1)

\* a text known by its length and by whether it ends with the marker
Text(chars, marked) == [chars |-> chars, marked |-> marked]
StrLen(text) == text.chars

\* if len(content) > 4000: content = content[:4000] + "... [truncated]"
Truncate(chars) ==
    IF chars > CharCap THEN Text(CharCap + Len(Marker), TRUE) ELSE Text(chars, FALSE)

\* fetch_webpage: every exception of the body becomes a failure result; a
\* page is cut to its first lines and characters
fetch_webpage(url, response) ==
    IF response.ok
    THEN LET content == Truncate(JoinedLength(response.lines, response.width))
         IN  [success |-> TRUE, url |-> Render(url), content |-> content,
              length |-> StrLen(content)]
    ELSE [success |-> FALSE, url |-> Render(url), error |-> <<"fetch failed">>]

\* fetch_webpage under its decorator; responses[k] is what attempt k meets
fetch_webpage_retry(url, responses) ==
    Retrying(1, FetchAttempts,
             [k \in 1..FetchAttempts |->
                 [raised |-> FALSE, value |-> fetch_webpage(url, responses[k])]])

\* the page the agent's fetches are served
SmallPage == Page(1, 9)

\* source: str = "Unknown", the default of take_notes
DefaultSource == JStr("Unknown")

\* the ledger entry take_notes builds
NoteEntry(note, source) == <<"[Source: ">> \o Render(source) \o <<"] ">> \o Render(note)

\* the entry is put in front of the ledger
take_notesPrepend(ledger, note, source) ==
    LET appended == <<NoteEntry(note, source)>> \o ledger
    IN  [notes |-> appended,
         value |-> [success |-> TRUE, message |-> <<"Note saved successfully">>,
                    total_notes |-> Len(appended)]]

\* take_notes: append the entry, return the running count
take_notes(ledger, note, source) ==
    LET appended == Append(ledger, NoteEntry(note, source))
    IN  [notes |-> appended,
         value |-> [success |-> TRUE, message |-> <<"Note saved successfully">>,
                    total_notes |-> Len(appended)]]

RECURSIVE NumberedNotes(_, _)
\* the lines "{i}. {note}\n" for the notes from position i on
NumberedNotes(ledger, i) ==
    IF i > Len(ledger) THEN <<>>
    ELSE <<ToString(i), ". ">> \o ledger[i] \o <<"\n">> \o NumberedNotes(ledger, i + 1)

\* the report lists the notes from the second one on
ReportTextSkipsFirst(ledger, title, summary, detailed_findings, conclusion) ==
    <<"\n", Eq60, "\n", "RESEARCH REPORT: ">> \o Render(title) \o <<"\n", Eq60, "\n\n">>
    \o <<"EXECUTIVE SUMMARY", "\n", Dash40, "\n">> \o Render(summary) \o <<"\n\n">>
    \o <<"DETAILED FINDINGS", "\n", Dash40, "\n">> \o Render(detailed_findings) \o <<"\n\n">>
    \o <<"CONCLUSION", "\n", Dash40, "\n">> \o Render(conclusion) \o <<"\n\n">>
    \o <<"RESEARCH NOTES", "\n", Dash40, "\n">>
    \o NumberedNotes(ledger, 2)
    \o <<"\n", Eq60, "\n">>

\* the text compile_report renders
ReportText(ledger, title, summary, detailed_findings, conclusion) ==
    <<"\n", Eq60, "\n", "RESEARCH REPORT: ">> \o Render(title) \o <<"\n", Eq60, "\n\n">>
    \o <<"EXECUTIVE SUMMARY", "\n", Dash40, "\n">> \o Render(summary) \o <<"\n\n">>
    \o <<"DETAILED FINDINGS", "\n", Dash40, "\n">> \o Render(detailed_findings) \o <<"\n\n">>
    \o <<"CONCLUSION", "\n", Dash40, "\n">> \o Render(conclusion) \o <<"\n\n">>
    \o <<"RESEARCH NOTES", "\n", Dash40, "\n">>
    \o NumberedNotes(ledger, 1)
    \o <<"\n", Eq60, "\n">>

\* compile_report: render the four fields and the whole ledger
compile_report(ledger, title, summary, detailed_findings, conclusion) ==
    [notes |-> ledger,
     value |-> [success |-> TRUE,
                report |-> ReportText(ledger, title, summary, detailed_findings,
                                      conclusion),
                notes_included |-> Len(ledger)]]

\* get_notes(): a copy of the ledger
get_notes(ledger) == ledger

\* the ledger survives the call
clear_notesKeeps(ledger) == ledger

\* clear_notes(): the emptied ledger
clear_notes(ledger) == <<>>

\* self._tools[tool_name](**arguments): binding the keyword arguments raises
\* TypeError when arguments is no mapping, carries an unexpected key or lacks
\* a required one; otherwise the tool body runs
CallTool(name, arguments, ledger, provider_ok) ==
    IF ~IsDict(arguments)
    THEN [raised |-> TRUE, error |-> <<"argument after ** must be a mapping">>,
          notes |-> ledger]
    ELSE IF ~(Keys(arguments) \subseteq Params(name))
    THEN [raised |-> TRUE, error |-> <<name, "() got an unexpected keyword argument">>,
          notes |-> ledger]
    ELSE IF ~(Required(name) \subseteq Keys(arguments))
    THEN [raised |-> TRUE, error |-> <<name, "() missing required positional argument">>,
          notes |-> ledger]
    ELSE CASE name = "web_search" ->
                LET r == web_search_retry(DictGet(arguments, "query", JNull),
                                          [k \in 1..SearchAttempts |-> provider_ok])
                IN  IF r.raised
                    THEN [raised |-> TRUE, error |-> r.value, notes |-> ledger]
                    ELSE [raised |-> FALSE, notes |-> ledger, value |-> r.value]
           [] name = "fetch_webpage" ->
                LET r == fetch_webpage_retry(
                             DictGet(arguments, "url", JNull),
                             [k \in 1..FetchAttempts |->
                                 IF provider_ok THEN SmallPage ELSE RequestFails])
                IN  IF r.raised
                    THEN [raised |-> TRUE, error |-> r.value, notes |-> ledger]
                    ELSE [raised |-> FALSE, notes |-> ledger, value |-> r.value]
           [] name = "take_notes" ->
                LET r == take_notes(ledger, DictGet(arguments, "note", JNull),
                                    DictGet(arguments, "source", DefaultSource))
                IN  [raised |-> FALSE, notes |-> r.notes, value |-> r.value]
           [] name = "compile_report" ->
                LET r == compile_report(ledger,
                                        DictGet(arguments, "title", JNull),
                                        DictGet(arguments, "summary", JNull),
                                        DictGet(arguments, "detailed_findings", JNull),
                                        DictGet(arguments, "conclusion", JNull))
                IN  [raised |-> FALSE, notes |-> r.notes, value |-> r.value]

\* execute without its try/except: the exception of the call propagates
executeNoTry(tool_name, arguments, ledger, provider_ok) ==
    IF tool_name \notin ToolNames
    THEN [raised |-> FALSE, notes |-> ledger,
          content |-> json_dumps([error |-> <<"Unknown tool: ", tool_name>>])]
    ELSE LET r == CallTool(tool_name, arguments, ledger, provider_ok)
         IN  IF r.raised
             THEN [raised |-> TRUE, notes |-> r.notes,
                   content |-> json_dumps([error |-> r.error])]
             ELSE [raised |-> FALSE, notes |-> r.notes,
                   content |-> json_dumps(r.value)]

\* ToolRegistry.execute: unknown names and every exception of the call become
\* a serialized {"error": ...}; nothing is raised past this boundary
execute(tool_name, arguments, ledger, provider_ok) ==
    IF tool_name \notin ToolNames
    THEN [raised |-> FALSE, notes |-> ledger,
          content |-> json_dumps([error |-> <<"Unknown tool: ", tool_name>>])]
    ELSE LET r == CallTool(tool_name, arguments, ledger, provider_ok)
         IN  IF r.raised
             THEN [raised |-> FALSE, notes |-> r.notes,
                   content |-> json_dumps([error |-> r.error])]
             ELSE [raised |-> FALSE, notes |-> r.notes,
                   content |-> json_dumps(r.value)]

\* dict.get(key) on a tool result, for the keys the agent reads
ResultGet(d, key) == IF key \in DOMAIN d THEN d[key] ELSE None
\* bool(result_data.get("success"))
ResultSuccess(d) == "success" \in DOMAIN d /\ d["success"] = TRUE

\* ---------------------------------------------------------------- model inputs
\* the argument texts a model response carries with a tool call
ArgQuery == JsonText(JDict(<<KV("query", JStr("q"))>>))
ArgUrl == JsonText(JDict(<<KV("url", JStr("http://u"))>>))
ArgNote == JsonText(JDict(<<KV("note", JStr("n1"))>>))
ArgNoteSource == JsonText(JDict(<<KV("note", JStr("n2")), KV("source", JStr("s1"))>>))
ArgNoteInt == JsonText(JDict(<<KV("note", JInt(5))>>))
ArgNoteExtra == JsonText(JDict(<<KV("note", JStr("n1")), KV("bogus", JStr("x"))>>))
ArgReport ==
    JsonText(JDict(<<KV("title", JStr("T")), KV("summary", JStr("S1")),
                     KV("detailed_findings", JStr("D")), KV("conclusion", JStr("C"))>>))
ArgReportNoConclusion ==
    JsonText(JDict(<<KV("title", JStr("T")), KV("summary", JStr("S1")),
                     KV("detailed_findings", JStr("D"))>>))
ArgEmpty == JsonText(EmptyDict)
ArgList == JsonText(JList)

\* the tool calls (name, argument text) a model response is drawn from
CallMenu ==
    { <<"web_search", ArgQuery>>, <<"web_search", ArgList>>,
      <<"fetch_webpage", ArgUrl>>,
      <<"take_notes", ArgNote>>, <<"take_notes", ArgNoteSource>>,
      <<"take_notes", ArgNoteInt>>, <<"take_notes", Garbage>>,
      <<"take_notes", ArgNoteExtra>>,
      <<"compile_report", ArgReport>>, <<"compile_report", ArgReportNoConclusion>>,
      <<"unknown_tool", ArgEmpty>>, <<"unknown_tool", ArgList>> }

\* the sequences of length n over the set S
SeqsOfLen(S, n) == [1..n -> S]

\* ---------------------------------------------------------------- ResearchAgent
SYSTEM_PROMPT == <<"You are an expert research assistant agent.">>

\* the two messages research() seeds the transcript with
SeedMessages ==
    << [role |-> "system", content |-> SYSTEM_PROMPT],
       [role |-> "user",
        content |-> <<"Please research the following topic and compile a comprehensive report:",
                      "\n\n", "topic">>] >>

RECURSIVE JoinNotes(_)
\* chr(10).join(f'- {note}' for note in notes)
JoinNotes(ledger) ==
    IF ledger = <<>> THEN <<>>
    ELSE IF Len(ledger) = 1 THEN <<"- ">> \o ledger[1]
    ELSE <<"- ">> \o ledger[1] \o <<"\n">> \o JoinNotes(Tail(ledger))

\* the text of the partial report
PartialReport(max, ledger) ==
    <<"\n", "PARTIAL RESEARCH REPORT", "\n", "=======================", "\n\n",
      "Research was terminated after ", ToString(max), " iterations.", "\n\n",
      "Notes gathered:", "\n">>
    \o (IF ledger # <<>> THEN JoinNotes(ledger) ELSE <<"No notes were saved.">>)
    \o <<"\n">>

Placeholder == <<"No report was generated.">>

\* ResearchAgent.__init__: an agent with its configuration, nothing run yet
Init ==
    /\ max_iterations \in (-1)..MaxIterBound
    /\ messages = <<>>
    /\ notes = <<>>
    /\ report = None
    /\ iteration = 0
    /\ pc = "idle"
    /\ tool_calls = <<>>
    /\ idx = 1
    /\ results = <<>>
    /\ returned = None
    /\ llm_calls = 0
    /\ calls_made = 0
    /\ last_result = None
    /\ taken = <<>>
    /\ request_tools = <<>>

\* research(topic), up to the loop: seed the transcript, clear the ledger and
\* the report; the agent may be one that ran earlier sessions
Research ==
    /\ pc \in {"idle", "returned", "raised"}
    /\ messages' = SeedMessages
    /\ notes' = clear_notes(notes)
    /\ report' = None
    /\ iteration' = 0
    /\ pc' = "while"
    /\ tool_calls' = <<>>
    /\ idx' = 1
    /\ results' = <<>>
    /\ returned' = None
    /\ llm_calls' = 0
    /\ calls_made' = 0
    /\ request_tools' = <<>>
    /\ UNCHANGED <<max_iterations, last_result, taken>>

\* while iteration < max_iterations: iteration += 1, then the model request
\* of _call_llm, which passes tools=self.tools.get_tool_definitions()
LoopEnter ==
    /\ pc = "while"
    /\ iteration < max_iterations
    /\ iteration' = iteration + 1
    /\ llm_calls' = llm_calls + 1
    /\ pc' = "call_llm"
    /\ request_tools' = get_tool_definitions
    /\ UNCHANGED <<max_iterations, messages, notes, report, tool_calls,
                   idx, results, returned, calls_made, last_result, taken>>

\* the loop condition fails
LoopExit ==
    /\ pc = "while"
    /\ ~(iteration < max_iterations)
    /\ pc' = "after_loop"
    /\ UNCHANGED <<max_iterations, messages, notes, report, iteration,
                   tool_calls, idx, results, returned, llm_calls, calls_made,
                   last_result, taken,
                   request_tools>>

\* the except branch with continue in place of break
LLMFailsContinue ==
    /\ pc = "call_llm"
    /\ pc' = "while"
    /\ UNCHANGED <<max_iterations, messages, notes, report, iteration,
                   tool_calls, idx, results, returned, llm_calls, calls_made,
                   last_result, taken,
                   request_tools>>

\* _call_llm() raises: logged, break
LLMFails ==
    /\ pc = "call_llm"
    /\ pc' = "after_loop"
    /\ UNCHANGED <<max_iterations, messages, notes, report, iteration,
                   tool_calls, idx, results, returned, llm_calls, calls_made,
                   last_result, taken,
                   request_tools>>

\* the assistant message research() appends for a response
AssistantMessage(calls) ==
    [role |-> "assistant", content |-> None,
     tool_calls |-> [i \in DOMAIN calls |->
                        [id |-> calls[i].id, type |-> "function",
                         function |-> [name |-> calls[i].name,
                                       arguments |-> calls[i].arguments]]]]

\* the response requests no tool calls: the message is appended, break
LLMRespondsNoTools ==
    /\ pc = "call_llm"
    /\ messages' = Append(messages, AssistantMessage(<<>>))
    /\ pc' = "after_loop"
    /\ UNCHANGED <<max_iterations, notes, report, iteration, tool_calls,
                   idx, results, returned, llm_calls, calls_made, last_result, taken,
                   request_tools>>

\* the response requests n tool calls, each with an id of its own
LLMRespondsTools ==
    /\ pc = "call_llm"
    /\ \E n \in 1..(MaxSessionCalls - calls_made) :
       \E menu \in SeqsOfLen(CallMenu, n) :
          LET calls == [i \in 1..n |->
                          [id |-> calls_made + i, name |-> menu[i][1],
                           arguments |-> menu[i][2]]]
          IN  /\ messages' = Append(messages, AssistantMessage(calls))
              /\ tool_calls' = calls
              /\ calls_made' = calls_made + n
    /\ idx' = 1
    /\ results' = <<>>
    /\ pc' = "process"
    /\ UNCHANGED <<max_iterations, notes, report, iteration, returned,
                   llm_calls, last_result, taken,
                   request_tools>>

\* the argument set of a call: json.loads, {} on JSONDecodeError
ParseArguments(text) ==
    LET parsed == json_loads(text)
    IN  IF parsed.raised THEN EmptyDict ELSE parsed.value

\* the log lines before the dispatch: arguments.get(...) needs a dict, and the
\* note is sliced with [:50]
LogRaises(tool_name, arguments) ==
    /\ tool_name \in ToolNames
    /\ \/ ~IsDict(arguments)
       \/ /\ tool_name = "take_notes"
          /\ ~Sliceable(DictGet(arguments, "note", JStr("N/A")))

\* the tool-result message appended to results for a call
ToolMessage(tool_call, content) ==
    [tool_call_id |-> tool_call.id, role |-> "tool", content |-> content]

\* a report already captured is kept
CaptureFirstOnly(rep, tool_name, result_data) ==
    IF tool_name = "compile_report" /\ ResultSuccess(result_data) /\ ~Truthy(rep)
    THEN Some(ResultGet(result_data, "report"))
    ELSE rep

\* if tool_name == "compile_report": if result_data.get("success"):
\* self._report = result_data.get("report")
Capture(rep, tool_name, result_data) ==
    IF tool_name = "compile_report" /\ ResultSuccess(result_data)
    THEN Some(ResultGet(result_data, "report"))
    ELSE rep

\* one pass of the for loop of _process_tool_calls
ProcessToolCall ==
    /\ pc = "process"
    /\ idx <= Len(tool_calls)
    /\ LET tool_call == tool_calls[idx]
           tool_name == tool_call.name
           arguments == ParseArguments(tool_call.arguments)
       IN  IF LogRaises(tool_name, arguments)
           THEN /\ pc' = "raised"
                /\ UNCHANGED <<notes, report, results, idx>>
           ELSE \E provider_ok \in BOOLEAN :
                LET r == execute(tool_name, arguments, notes, provider_ok)
                    result_data == json_loads(r.content).value
                IN  IF r.raised
                    THEN /\ pc' = "raised"
                         /\ notes' = r.notes
                         /\ UNCHANGED <<report, results, idx>>
                    ELSE /\ notes' = r.notes
                         /\ report' = Capture(report, tool_name, result_data)
                         /\ results' = Append(results,
                                               ToolMessage(tool_call, r.content))
                         /\ idx' = idx + 1
                         /\ pc' = "process"
    /\ UNCHANGED <<max_iterations, messages, iteration, tool_calls,
                   returned, llm_calls, calls_made, last_result, taken,
                   request_tools>>

\* only the first result reaches the transcript
ExtendFirstOnly(msgs, tool_results) == msgs \o SubSeq(tool_results, 1, 1)

\* self.messages.extend(tool_results)
Extend(msgs, tool_results) == msgs \o tool_results

\* the for loop is over: messages.extend(tool_results), break on a report
EndTurn ==
    /\ pc = "process"
    /\ idx > Len(tool_calls)
    /\ messages' = Extend(messages, results)
    /\ pc' = IF Truthy(report) THEN "after_loop" ELSE "while"
    /\ UNCHANGED <<max_iterations, notes, report, iteration, tool_calls,
                   idx, results, returned, llm_calls, calls_made, last_result, taken,
                   request_tools>>

\* the fallback taken whenever no report exists
FallbackAlways(it, max, rep) == ~Truthy(rep)

\* the fallback taken only once the counter has passed the budget
FallbackStrict(it, max, rep) == it > max /\ ~Truthy(rep)

\* the fallback taken only under a positive budget
FallbackPositive(it, max, rep) == it >= max /\ max > 0 /\ ~Truthy(rep)

\* if iteration >= max_iterations and not self._report
FallbackNeeded(it, max, rep) == it >= max /\ ~Truthy(rep)

\* return self._report, without the placeholder
ReturnValueNoDefault(final) == final

\* return self._report or "No report was generated."
ReturnValue(final) == IF Truthy(final) THEN final ELSE Some(Placeholder)

\* after the loop: the partial report when the counter reached the budget
\* and no report exists, then the return value
Finish ==
    /\ pc = "after_loop"
    /\ LET fallback == FallbackNeeded(iteration, max_iterations, report)
           final == IF fallback
                    THEN Some(PartialReport(max_iterations, get_notes(notes)))
                    ELSE report
       IN  /\ report' = final
           /\ returned' = ReturnValue(final)
    /\ pc' = "returned"
    /\ UNCHANGED <<max_iterations, messages, notes, iteration, tool_calls,
                   idx, results, llm_calls, calls_made, last_result, taken,
                   request_tools>>

Next ==
    \/ Research
    \/ LoopEnter
    \/ LoopExit
    \/ LLMFails
    \/ LLMRespondsNoTools
    \/ LLMRespondsTools
    \/ ProcessToolCall
    \/ EndTurn
    \/ Finish

Spec == Init /\ [][Next]_vars

\* ---------------------------------------------------------------- registry alone
\* the argument payloads of direct ToolRegistry.execute calls
ArgTexts ==
    {ArgQuery, ArgUrl, ArgNote, ArgNoteSource, ArgNoteInt, ArgNoteExtra, ArgReport,
     ArgReportNoConclusion, ArgEmpty, ArgList}
DirectArguments == {ParseArguments(t) : t \in ArgTexts} \cup {JNull, JStr("x")}
DirectNames == ToolNames \cup {"unknown_tool"}

\* a ToolRegistry as constructed, no agent running
RegInit ==
    /\ max_iterations = 0
    /\ messages = <<>>
    /\ notes = <<>>
    /\ report = None
    /\ iteration = 0
    /\ pc = "idle"
    /\ tool_calls = <<>>
    /\ idx = 1
    /\ results = <<>>
    /\ returned = None
    /\ llm_calls = 0
    /\ calls_made = 0
    /\ last_result = None
    /\ taken = <<>>
    /\ request_tools = <<>>

\* the rest of the state, which no direct call on a registry touches
AgentIdle ==
    UNCHANGED <<max_iterations, messages, report, iteration, pc, tool_calls,
                idx, results, returned, llm_calls, calls_made, request_tools>>

\* the take_notes call an execute amounts to, when its arguments bind
TakenBy(tool_name, arguments) ==
    IF tool_name = "take_notes" /\ ~CallTool(tool_name, arguments, <<>>, TRUE).raised
    THEN <<[note |-> DictGet(arguments, "note", JNull),
            source |-> IF HasKey(arguments, "source")
                       THEN Some(DictGet(arguments, "source", JNull))
                       ELSE None]>>
    ELSE <<>>

\* a caller runs registry.execute(tool_name, arguments)
RegExecute ==
    \E tool_name \in DirectNames, arguments \in DirectArguments,
       provider_ok \in BOOLEAN :
        LET r == execute(tool_name, arguments, notes, provider_ok)
        IN  /\ Len(r.notes) <= MaxNotes
            /\ notes' = r.notes
            /\ last_result' = Some([op |-> "execute",
                                    tool_name |-> tool_name, arguments |-> arguments,
                                    provider_ok |-> provider_ok, before |-> notes,
                                    raised |-> r.raised, content |-> r.content])
            /\ taken' = taken \o TakenBy(tool_name, arguments)
            /\ AgentIdle

\* the notes and sources of direct take_notes calls; None: source left out
DirectTakes == {<<JStr("n1"), None>>, <<JStr("n2"), Some(JStr("s1"))>>}

\* a caller runs registry.take_notes(note) or registry.take_notes(note, source)
RegTakeNotes ==
    \E call \in DirectTakes :
        LET note == call[1]
            source == call[2]
            r == take_notes(notes, note,
                            IF source = None THEN DefaultSource ELSE source[1])
        IN  /\ Len(r.notes) <= MaxNotes
            /\ notes' = r.notes
            /\ last_result' = Some([op |-> "take_notes", before |-> notes,
                                    value |-> r.value])
            /\ taken' = Append(taken, [note |-> note, source |-> source])
            /\ AgentIdle

\* the list get_notes returns is the ledger object itself
SnapshotIsAlias == FALSE

\* self._notes.copy(): the list get_notes returns is a new object
SnapshotIsCopy == TRUE

\* a caller runs registry.get_notes() and keeps the list
RegGetNotes ==
    /\ last_result' = Some([op |-> "get_notes", before |-> notes,
                            value |-> get_notes(notes), mutated |-> FALSE])
    /\ UNCHANGED <<notes, taken>>
    /\ AgentIdle

\* the caller appends to the list get_notes returned
RegMutateSnapshot ==
    /\ last_result # None
    /\ last_result[1].op = "get_notes"
    /\ ~last_result[1].mutated
    /\ last_result' = Some([last_result[1] EXCEPT
                               !.value = Append(@, <<"caller's own entry">>),
                               !.mutated = TRUE])
    /\ notes' = IF SnapshotIsCopy THEN notes
                ELSE Append(notes, <<"caller's own entry">>)
    /\ UNCHANGED taken
    /\ AgentIdle

\* the field values of direct compile_report calls: title, summary,
\* detailed_findings, conclusion
DirectFields ==
    { <<JStr("T"), JStr("S1"), JStr("D"), JStr("C")>>,
      <<JInt(5), JStr("S2"), JStr("D2"), JStr("")>> }

\* a caller runs registry.compile_report(title, summary, detailed_findings,
\* conclusion)
RegCompileReport ==
    \E fields \in DirectFields :
        LET r == compile_report(notes, fields[1], fields[2], fields[3], fields[4])
        IN  /\ notes' = r.notes
            /\ last_result' = Some([op |-> "compile_report", before |-> notes,
                                    fields |-> fields, value |-> r.value])
            /\ UNCHANGED taken
            /\ AgentIdle

\* a caller runs registry.clear_notes()
RegClearNotes ==
    /\ notes' = clear_notes(notes)
    /\ last_result' = None
    /\ taken' = <<>>
    /\ AgentIdle

RegNext ==
    \/ RegExecute
    \/ RegTakeNotes
    \/ RegGetNotes
    \/ RegMutateSnapshot
    \/ RegCompileReport
    \/ RegClearNotes

RegSpec == RegInit /\ [][RegNext]_vars

\* ---------------------------------------------------------------- network tools alone
\* the inputs of direct web_search and fetch_webpage calls
DirectQueries == {JStr("q"), JStr("q2")}
DirectUrls == {JStr("http://u"), JStr("http://v")}
PageLines == {0, 1, 100, 101}
LineWidths == {1, 39, 40, 4000, 4001}
Responses == {RequestFails} \cup {Page(n, w) : n \in PageLines, w \in LineWidths}

\* a caller runs registry.web_search(query); the provider answers or raises
\* at each attempt the decorator makes
NetWebSearch ==
    \E query \in DirectQueries, provider \in [1..SearchAttempts -> BOOLEAN] :
        /\ last_result' = Some([op |-> "web_search", query |-> query,
                                provider |-> provider,
                                outcome |-> web_search_retry(query, provider)])
        /\ UNCHANGED <<notes, taken>>
        /\ AgentIdle

\* a caller runs registry.fetch_webpage(url)
NetFetchWebpage ==
    \E url \in DirectUrls, responses \in [1..FetchAttempts -> Responses] :
        /\ last_result' = Some([op |-> "fetch_webpage", url |-> url,
                                responses |-> responses,
                                outcome |-> fetch_webpage_retry(url, responses)])
        /\ UNCHANGED <<notes, taken>>
        /\ AgentIdle

NetNext ==
    \/ NetWebSearch
    \/ NetFetchWebpage

NetSpec == RegInit /\ [][NetNext]_vars

\* ---------------------------------------------------------------- observations
\* the positions of the assistant messages of a transcript
AssistantAt(msgs) == {m \in DOMAIN msgs : msgs[m].role = "assistant"}
\* the positions of its tool-result messages
ToolAt(msgs) == {j \in DOMAIN msgs : msgs[j].role = "tool"}
\* the tool-result messages answering the correlation id
AnswersTo(msgs, id) == {j \in ToolAt(msgs) : msgs[j].tool_call_id = id}
\* the correlation ids the assistant messages request
RequestedIds(msgs) ==
    UNION {{msgs[m].tool_calls[i].id : i \in DOMAIN msgs[m].tool_calls} :
           m \in AssistantAt(msgs)}

\* the last model request of the session got no response (it raised, or it is
\* still outstanding): every response appends one assistant message
LastRequestUnanswered == Cardinality(AssistantAt(messages)) < llm_calls

\* the last response of the session requested no tool calls
EndedByNoTools ==
    /\ messages # <<>>
    /\ messages[Len(messages)].role = "assistant"
    /\ messages[Len(messages)].tool_calls = <<>>

\* the passes of the current turn that were a successful compile_report
SuccessfulCompiles ==
    {i \in DOMAIN results :
        /\ tool_calls[i].name = "compile_report"
        /\ ResultSuccess(json_loads(results[i].content).value)}

\* the text a successful compile_report of this turn returned last
LastCompiledText ==
    LET i == CHOOSE k \in SuccessfulCompiles : \A l \in SuccessfulCompiles : l <= k
    IN  json_loads(results[i].content).value["report"]

\* ---------------------------------------------------------------- claims
\* C1: whenever a model request is issued, every tool call requested by an
\* assistant message of the transcript is answered by exactly one tool message
\* with its correlation id, placed after the request, and every tool message
\* answers a requested id.
C1_TranscriptCorrelated ==
    pc = "call_llm" =>
        /\ \A m \in AssistantAt(messages) :
             \A i \in DOMAIN messages[m].tool_calls :
                /\ Cardinality(AnswersTo(messages, messages[m].tool_calls[i].id)) = 1
                /\ \A j \in AnswersTo(messages, messages[m].tool_calls[i].id) : j > m
        /\ \A j \in ToolAt(messages) : messages[j].tool_call_id \in RequestedIds(messages)

\* a model request issued after a turn of at least two tool calls
C1_Witness ==
    /\ pc = "call_llm"
    /\ Cardinality(ToolAt(messages)) >= 2
    /\ Cardinality(AssistantAt(messages)) = 1

\* C7: on every path on which research() returns, the value returned is a
\* non-empty string.
C7_ReturnNonEmpty ==
    pc = "returned" => (returned # None /\ ~IsEmptyStr(returned[1]))

\* research() returned and neither a compiled nor a partial report existed
C7_Witness == pc = "returned" /\ returned = Some(Placeholder)

\* C9: execute raises nothing and returns a serialized structured value; for an
\* unknown tool name or a tool call that raised the value carries an "error" key
\* and the ledger is what it was before the call.
C9_DispatchNeverRaises ==
    (last_result # None /\ last_result[1].op = "execute") =>
        LET r == last_result[1]
            value == json_loads(r.content).value
            failed == \/ r.tool_name \notin ToolNames
                      \/ CallTool(r.tool_name, r.arguments, r.before, r.provider_ok).raised
        IN  /\ ~r.raised
            /\ r.content.ok
            /\ failed => ("error" \in DOMAIN value /\ notes = r.before)

\* a known tool called with an argument set its signature rejects, on a ledger
\* that holds notes
C9_Witness ==
    /\ last_result # None
    /\ last_result[1].op = "execute"
    /\ last_result[1].tool_name = "take_notes"
    /\ last_result[1].arguments = ParseArguments(ArgNoteExtra)
    /\ last_result[1].before # <<>>
    /\ "error" \in DOMAIN json_loads(last_result[1].content).value

\* the name of the tool the transcript requested under a correlation id
RequestedName(msgs, id) ==
    LET m == CHOOSE a \in AssistantAt(msgs) :
                \E i \in DOMAIN msgs[a].tool_calls : msgs[a].tool_calls[i].id = id
        i == CHOOSE k \in DOMAIN msgs[m].tool_calls : msgs[m].tool_calls[k].id = id
    IN  msgs[m].tool_calls[i].function.name

\* the texts of the successful compile_report results of the transcript
CompiledTexts(msgs) ==
    {json_loads(msgs[j].content).value["report"] :
        j \in {t \in ToolAt(msgs) :
                 /\ RequestedName(msgs, msgs[t].tool_call_id) = "compile_report"
                 /\ ResultSuccess(json_loads(msgs[t].content).value)}}

\* some compile_report call of the session succeeded
SomeCompileSucceeded == CompiledTexts(messages) # {} \/ SuccessfulCompiles # {}

\* research() has ended, by a return or by an exception
Ended == pc \in {"returned", "raised"}

\* the model requests max_iterations allows: none when it is zero or negative
Budget == IF max_iterations > 0 THEN max_iterations ELSE 0

\* C2: one research() issues at most max_iterations model requests, and it ends
\* by returning a value.
C2_BudgetAndReturn ==
    /\ llm_calls <= Budget
    /\ Ended => returned # None

\* the budget part of C2 alone
C2_Budget == llm_calls <= Budget

\* C3: once a compile_report call of the turn has returned success, no further
\* model request is issued and research() returns the compiled text.
C3_ReportStopsLoop ==
    SuccessfulCompiles # {} =>
        /\ pc \in {"process", "after_loop", "returned"}
        /\ pc = "returned" => returned = Some(LastCompiledText)

\* the value part of C3 alone: what happens when no exception escapes the turn
C3_OnReturn ==
    (SuccessfulCompiles # {} /\ pc # "raised") =>
        /\ pc \in {"process", "after_loop", "returned"}
        /\ pc = "returned" => returned = Some(LastCompiledText)

\* C4: a session that made max_iterations >= 1 model requests without a
\* successful compile_report ends with research() returning the partial report
\* over the ledger.
C4_ExhaustionFallback ==
    (Ended /\ max_iterations >= 1 /\ llm_calls = max_iterations
           /\ ~SomeCompileSucceeded)
        => (pc = "returned" /\ returned = Some(PartialReport(max_iterations, notes)))

\* the value part of C4 alone: what research() returns when it does return
C4_OnReturn ==
    (pc = "returned" /\ max_iterations >= 1 /\ llm_calls = max_iterations
                     /\ ~SomeCompileSucceeded)
        => /\ returned = Some(PartialReport(max_iterations, notes))
           /\ Contains(returned[1], <<"PARTIAL RESEARCH REPORT">>)
           /\ \A i \in DOMAIN notes : Contains(returned[1], <<"- ">> \o notes[i])
           /\ notes = <<>> => Contains(returned[1], <<"No notes were saved.">>)

C10_ToolErrorsRecovered ==
    /\ pc # "raised"
    /\ pc = "process" =>
          /\ Len(results) = idx - 1
          /\ \A i \in DOMAIN results : results[i].tool_call_id = tool_calls[i].id

\* the argument text does not parse into a key/value argument set: it is not
\* JSON, or it is JSON of another shape
NotKeyValue(text) == ~text.ok \/ ~IsDict(text.value)

\* C11: a tool call whose argument text does not parse into a key/value
\* argument set is dispatched with empty arguments, its tool message is
\* appended, and nothing propagates out of research().
C11_MalformedArgumentsNotFatal ==
    /\ pc = "raised" => ~NotKeyValue(tool_calls[idx].arguments)
    /\ \A i \in DOMAIN results :
          NotKeyValue(tool_calls[i].arguments)
             => /\ results[i].tool_call_id = tool_calls[i].id
                /\ results[i].content
                      = execute(tool_calls[i].name, EmptyDict, <<>>, TRUE).content

\* the part of C11 that holds: argument text json.loads rejects
C11_OnDecodeError ==
    /\ pc = "raised" => tool_calls[idx].arguments.ok
    /\ \A i \in DOMAIN results :
          ~tool_calls[i].arguments.ok
             => /\ results[i].tool_call_id = tool_calls[i].id
                /\ results[i].content
                      = execute(tool_calls[i].name, EmptyDict, <<>>, TRUE).content

\* a tool message appended for a call whose argument text json.loads rejected
C11_DecodeErrorSeen ==
    \E i \in DOMAIN results : ~tool_calls[i].arguments.ok

\* the successful take_notes results of a transcript
TakenIn(msgs) ==
    {j \in ToolAt(msgs) :
        /\ RequestedName(msgs, msgs[j].tool_call_id) = "take_notes"
        /\ ResultSuccess(json_loads(msgs[j].content).value)}

\* the successful take_notes passes of the turn being processed
TakenInTurn ==
    {i \in DOMAIN results :
        /\ tool_calls[i].name = "take_notes"
        /\ ResultSuccess(json_loads(results[i].content).value)}

\* the results of the turn are not yet part of the transcript
TurnPending == pc \in {"process", "raised"}

\* every note of the ledger was taken by a call of the running session
LedgerFromThisSession ==
    Len(notes) = Cardinality(TakenIn(messages))
                    + (IF TurnPending THEN Cardinality(TakenInTurn) ELSE 0)

\* a captured report was compiled by a call of the running session, or is the
\* partial report over the session's ledger
ReportFromThisSession ==
    Truthy(report) =>
        \/ report[1] \in CompiledTexts(messages)
        \/ TurnPending /\ SuccessfulCompiles # {} /\ report[1] = LastCompiledText
        \/ pc = "returned" /\ report[1] = PartialReport(max_iterations, notes)

\* research() is entered: the step from a state in which no session runs
ResearchStep == pc \in {"idle", "returned", "raised"} /\ pc' = "while"

\* C12: every research() call starts with an empty ledger, no captured report
\* and the transcript of system prompt and topic message, and at every moment
\* the ledger and the captured report stem from calls of the running session
\* only, whether the session before returned or raised.
C12_SessionIsolation ==
    /\ [][ResearchStep => /\ notes' = <<>>
                          /\ report' = None
                          /\ messages' = SeedMessages
                          /\ Len(messages') = 2]_vars
    /\ [](LedgerFromThisSession /\ ReportFromThisSession)

\* a session has ended leaving notes in the ledger and a captured report, and
\* research() can be called again
C12_Witness ==
    /\ pc \in {"returned", "raised"}
    /\ notes # <<>>
    /\ Truthy(report)
    /\ ENABLED Research

\* the text the first successful compile_report of this turn returned
FirstCompiledText ==
    LET i == CHOOSE k \in SuccessfulCompiles : \A l \in SuccessfulCompiles : k <= l
    IN  json_loads(results[i].content).value["report"]

\* C13: within a session the report is captured from a successful
\* compile_report call at most once, and a later successful compile_report
\* does not replace the report already captured.
C13_ReportCapturedOnce ==
    /\ Cardinality(SuccessfulCompiles) <= 1
    /\ SuccessfulCompiles # {} => report = Some(FirstCompiledText)

\* what holds instead: the captured report is that of the last successful
\* compile_report of the turn
C13_LastCaptureWins ==
    SuccessfulCompiles # {} => report = Some(LastCompiledText)

\* two successful compile_report calls of one turn with a note taken between
\* them: the captured report is the second text
C13_Replaced ==
    /\ Cardinality(SuccessfulCompiles) = 2
    /\ FirstCompiledText # LastCompiledText
    /\ report = Some(LastCompiledText)

\* the entry '[Source: s] n' of a recorded take_notes call, 'Unknown' standing
\* in for a source left out
EntryOf(call) ==
    <<"[Source: ">>
    \o (IF call.source = None THEN <<"Unknown">> ELSE call.source[1].s)
    \o <<"] ">> \o call.note.s

\* C14: the ledger is the sequence of entries '[Source: s] n' of the take_notes
\* calls since the last clear_notes, in call order; take_notes returns success
\* with total_notes the ledger length after its append; clear_notes leaves the
\* ledger empty; get_notes returns the ledger's content as a list whose
\* mutation leaves the ledger as it was.
C14_LedgerSemantics ==
    /\ get_notes(notes) = [i \in 1..Len(taken) |-> EntryOf(taken[i])]
    /\ last_result # None =>
          LET r == last_result[1]
          IN  /\ r.op = "take_notes" =>
                    /\ r.value.success = TRUE
                    /\ r.value.total_notes = Len(notes)
                    /\ Len(notes) = Len(r.before) + 1
              /\ r.op = "get_notes" =>
                    /\ notes = r.before
                    /\ IF r.mutated THEN r.value # notes ELSE r.value = notes

\* a snapshot of a ledger of several notes, taken with and without a source,
\* has been mutated by the caller
C14_Witness ==
    /\ last_result # None
    /\ last_result[1].op = "get_notes"
    /\ last_result[1].mutated
    /\ Len(taken) >= 2
    /\ \E i, j \in DOMAIN taken : taken[i].source = None /\ taken[j].source # None

\* the positions at which needle occurs in hay
Positions(hay, needle) ==
    {k \in 1..(Len(hay) - Len(needle) + 1) :
        SubSeq(hay, k, k + Len(needle) - 1) = needle}

\* the line of a report that lists the i-th note of a ledger
NoteLine(ledger, i) == <<ToString(i), ". ">> \o ledger[i] \o <<"\n">>

\* C15: compile_report on a ledger of n notes returns success with
\* notes_included = n and a report that contains the four field values and
\* every note of the ledger exactly once, numbered 1..n in ledger order, and no
\* other numbered line; the ledger is left as it was, and the same call on that
\* ledger yields the same result.
C15_CompileRendersLedger ==
    (last_result # None /\ last_result[1].op = "compile_report") =>
        LET r == last_result[1]
            text == r.value.report
            n == Len(r.before)
        IN  /\ r.value.success = TRUE
            /\ r.value.notes_included = n
            /\ notes = r.before
            /\ \A f \in 1..4 : Contains(text, r.fields[f].s)
            /\ \A i \in 1..n : Cardinality(Positions(text, NoteLine(r.before, i))) = 1
            /\ \A i, j \in 1..n :
                  i < j => \A p \in Positions(text, NoteLine(r.before, i)) :
                             \A q \in Positions(text, NoteLine(r.before, j)) : p < q
            /\ Cardinality(Positions(text, <<". ">>)) = n
            /\ compile_report(notes, r.fields[1], r.fields[2], r.fields[3],
                              r.fields[4]).value = r.value

\* a report compiled over a ledger that holds the same note twice and another
\* one, with a title that is no string
C15_Witness ==
    /\ last_result # None
    /\ last_result[1].op = "compile_report"
    /\ Len(last_result[1].before) = 3
    /\ last_result[1].before[1] = last_result[1].before[3]
    /\ last_result[1].before[1] # last_result[1].before[2]
    /\ last_result[1].fields[1] = JInt(5)

\* the last direct call was of the operation op
LastOp(op) == last_result # None /\ last_result[1].op = op

\* C16: web_search raises nothing; when the provider raises at every attempt
\* it makes 3 attempts and returns {success: false, error, results: []}; when
\* the provider first answers at attempt j <= 3 it makes j attempts and
\* returns the successful result of attempt j.
C16_SearchRetried ==
    LastOp("web_search") =>
        LET r == last_result[1]
            answered == {k \in 1..SearchAttempts : r.provider[k]}
        IN  /\ ~r.outcome.raised
            /\ answered = {} =>
                  /\ r.outcome.attempts = SearchAttempts
                  /\ r.outcome.value.success = FALSE
                  /\ "error" \in DOMAIN r.outcome.value
                  /\ r.outcome.value.results = <<>>
            /\ \A j \in answered :
                  (\A k \in answered : j <= k) =>
                      /\ r.outcome.attempts = j
                      /\ r.outcome.value = web_search(r.query, TRUE)

\* what holds instead: one attempt, whose result is returned, failure or not
C16_SingleAttempt ==
    LastOp("web_search") =>
        /\ ~last_result[1].outcome.raised
        /\ last_result[1].outcome.attempts = 1
        /\ last_result[1].outcome.value
              = web_search(last_result[1].query, last_result[1].provider[1])

\* a search returned failure although the provider would have answered the
\* second attempt
C16_GaveUpEarly ==
    /\ LastOp("web_search")
    /\ ~last_result[1].provider[1]
    /\ last_result[1].provider[2]
    /\ last_result[1].outcome.value.success = FALSE

\* C17: fetch_webpage raises nothing and makes at most 2 attempts; a failed
\* first attempt is followed by a second, and {success: false, url, error} is
\* returned only when both attempts failed.
C17_FetchRetried ==
    LastOp("fetch_webpage") =>
        LET r == last_result[1]
        IN  /\ ~r.outcome.raised
            /\ r.outcome.attempts <= FetchAttempts
            /\ ~r.responses[1].ok => r.outcome.attempts = 2
            /\ r.outcome.value.success = FALSE =>
                  /\ \A k \in 1..FetchAttempts : ~r.responses[k].ok
                  /\ r.outcome.value.url = r.url.s
                  /\ "error" \in DOMAIN r.outcome.value

\* what holds instead: one attempt, whose result is returned, failure or not
C17_SingleAttempt ==
    LastOp("fetch_webpage") =>
        /\ ~last_result[1].outcome.raised
        /\ last_result[1].outcome.attempts = 1
        /\ last_result[1].outcome.value
              = fetch_webpage(last_result[1].url, last_result[1].responses[1])

\* C18: the content of a successful fetch_webpage is at most 4000 characters
\* long, the marker included, a text that exceeded 4000 characters carries the
\* marker, and the reported length is the length of the content returned.
C18_LengthCap ==
    (LastOp("fetch_webpage") /\ last_result[1].outcome.value.success) =>
        LET r == last_result[1]
            served == r.responses[r.outcome.attempts]
            value == r.outcome.value
        IN  /\ StrLen(value.content) <= CharCap
            /\ JoinedLength(served.lines, served.width) > CharCap
                  => value.content.marked
            /\ value.length = StrLen(value.content)

\* what holds instead: the first 4000 characters and then the marker, 4015
\* characters for every text that exceeded 4000
C18_CapBeforeMarker ==
    (LastOp("fetch_webpage") /\ last_result[1].outcome.value.success) =>
        LET r == last_result[1]
            served == r.responses[r.outcome.attempts]
            joined == JoinedLength(served.lines, served.width)
            value == r.outcome.value
        IN  /\ value.content = IF joined > CharCap
                               THEN Text(CharCap + Len(Marker), TRUE)
                               ELSE Text(joined, FALSE)
            /\ value.length = StrLen(value.content)

\* a page of 100 lines of 40 characters: 4099 characters joined, 4015 returned
C18_OverCap ==
    /\ LastOp("fetch_webpage")
    /\ last_result[1].responses[1] = Page(100, 40)
    /\ last_result[1].outcome.value.length = 4015

\* the names of a list of tool schemas, in its order
SchemaNames(defs) == [i \in DOMAIN defs |-> defs[i].name]

\* C19: whatever calls the registry has served and whatever the ledger holds,
\* the tool list passed with a model request, the value of
\* get_tool_definitions() at that moment, is the 4 schemas web_search,
\* fetch_webpage, take_notes, compile_report in this order, the same at every
\* request of the session.
C19_StableToolList ==
    llm_calls > 0 =>
        /\ Len(request_tools) = 4
        /\ SchemaNames(request_tools)
              = <<"web_search", "fetch_webpage", "take_notes", "compile_report">>
        /\ request_tools = get_tool_definitions

\* the second model request of a session, issued with notes in the ledger
C19_Witness ==
    /\ pc = "call_llm"
    /\ llm_calls = 2
    /\ notes # <<>>

\* the tool calls of the assistant message at position m are answered, one
\* by one and in their order, by the messages that follow it
AnsweredInOrder(msgs, m) ==
    \A i \in DOMAIN msgs[m].tool_calls :
        /\ m + i <= Len(msgs)
        /\ msgs[m + i].role = "tool"
        /\ msgs[m + i].tool_call_id = msgs[m].tool_calls[i].id

\* C20: the tool calls of a turn are executed in the order received, each
\* result is appended in that order right after the assistant message, and
\* every call of the turn is executed, those after a successful compile_report
\* of the same turn included.
C20_TurnInOrder ==
    /\ TurnPending =>
          \A i \in DOMAIN results : results[i].tool_call_id = tool_calls[i].id
    /\ pc # "process" =>
          \A m \in AssistantAt(messages) : AnsweredInOrder(messages, m)

\* the part of C20 that holds: the turns no exception cut short
C20_OnCompletion ==
    /\ TurnPending =>
          \A i \in DOMAIN results : results[i].tool_call_id = tool_calls[i].id
    /\ pc \notin {"process", "raised"} =>
          \A m \in AssistantAt(messages) : AnsweredInOrder(messages, m)

\* a turn whose take_notes call followed a successful compile_report was
\* processed to its end: the note is in the ledger and its result in the
\* transcript
C20_AfterCompile ==
    /\ pc = "after_loop"
    /\ Len(results) = 2
    /\ SuccessfulCompiles = {1}
    /\ TakenInTurn = {2}
    /\ Len(notes) = 1
    /\ AnsweredInOrder(messages, 3)

\* C21: as long as no compile_report call of the turn has returned success: true,
\* whatever the calls of the turn and their results were, no report is captured,
\* the loop is not left as REPORTED, and the session goes on to the next
\* iteration test: nothing but a successful compile_report ends it.
C21_OnlySuccessIsTerminal ==
    SuccessfulCompiles = {} =>
        /\ pc \in {"process", "while", "call_llm", "after_loop"} => ~Truthy(report)
        /\ pc # "raised"

\* the part of C21 that holds: before research() builds its return value, a
\* report is captured only by a successful compile_report
C21_OnlySuccessCaptures ==
    (SuccessfulCompiles = {}
        /\ pc \in {"process", "while", "call_llm", "after_loop", "raised"})
            => ~Truthy(report)

\* a turn whose only compile_report lacked a required field ran to its end and
\* the loop went on with no report captured
C21_FailedCompileGoesOn ==
    /\ pc = "while"
    /\ iteration >= 1
    /\ \E i \in DOMAIN results :
          /\ tool_calls[i].name = "compile_report"
          /\ "error" \in DOMAIN json_loads(results[i].content).value
    /\ report = None

\* C22: when research() returns and no compile_report of the session
\* succeeded, it returns the partial report if and only if the iteration
\* counter is >= max_iterations (always so for max_iterations <= 0, where no
\* model request is made), and the placeholder if and only if the loop was
\* left, by a failed model request or by a response without tool calls, at an
\* iteration below max_iterations; it returns nothing else.
C22_FallbackByCounter ==
    (pc = "returned" /\ ~SomeCompileSucceeded) =>
        /\ returned \in {Some(PartialReport(max_iterations, notes)), Some(Placeholder)}
        /\ returned = Some(PartialReport(max_iterations, notes))
              <=> iteration >= max_iterations
        /\ returned = Some(Placeholder)
              <=> /\ iteration < max_iterations
                  /\ LastRequestUnanswered \/ EndedByNoTools
        /\ max_iterations <= 0 =>
              /\ llm_calls = 0
              /\ returned = Some(PartialReport(max_iterations, notes))

\* research() returned under a negative max_iterations: no model request was
\* made and the partial report came back
C22_Witness ==
    /\ pc = "returned"
    /\ max_iterations < 0
    /\ llm_calls = 0
    /\ returned = Some(PartialReport(max_iterations, notes))

\* research() returned the placeholder after a failed model request at an
\* iteration below the budget
C22_PlaceholderSeen ==
    /\ pc = "returned"
    /\ returned = Some(Placeholder)
    /\ LastRequestUnanswered
    /\ iteration < max_iterations

\* the last successful compile_report pass of the turn
LastCompile ==
    CHOOSE k \in SuccessfulCompiles : \A l \in SuccessfulCompiles : l <= k

\* the successful take_notes passes of the turn that came after it
LaterTakes == {j \in TakenInTurn : j > LastCompile}

\* the ledger as it was when that compile_report ran: the later notes were
\* appended behind it
LedgerAtCompile == SubSeq(notes, 1, Len(notes) - Cardinality(LaterTakes))

\* C23: when research() returns after a turn with a successful compile_report,
\* it returns the text of the last successful compile_report of that turn; the
\* notes the text enumerates are the ledger as it was at that call, and the
\* notes taken later in the turn are in the ledger but not in the text.
C23_LastCompiledReturned ==
    (pc = "returned" /\ SuccessfulCompiles # {}) =>
        LET text == returned[1]
            compiled == json_loads(results[LastCompile].content).value
        IN  /\ returned = Some(compiled.report)
            /\ compiled.notes_included = Len(LedgerAtCompile)
            /\ \A k \in DOMAIN LedgerAtCompile :
                  Cardinality(Positions(text, NoteLine(LedgerAtCompile, k))) = 1
            /\ Cardinality(Positions(text, <<". ">>)) = Len(LedgerAtCompile)
            /\ \A j \in LaterTakes :
                  LET n == json_loads(results[j].content).value.total_notes
                  IN  /\ Len(LedgerAtCompile) < n
                      /\ n <= Len(notes)
                      /\ ~Contains(text, <<ToString(n), ". ">>)

\* research() returned the report of a turn that took a note, compiled, and
\* took another note: one note in the text, two in the ledger
C23_Witness ==
    /\ pc = "returned"
    /\ SuccessfulCompiles = {2}
    /\ TakenInTurn = {1, 3}
    /\ Len(notes) = 2
    /\ Truthy(returned)

\* research() returned after a turn with two successful compile_report calls
\* and a note between them: the second text, which lists the note, came back
C23_SecondOfTwo ==
    /\ pc = "returned"
    /\ SuccessfulCompiles = {1, 3}
    /\ TakenInTurn = {2}
    /\ returned = Some(LastCompiledText)
    /\ returned # Some(FirstCompiledText)

====
